---- MODULE Spec2Model ----
(***************************************************************************)
(* Model of src/main.py: the synthetic daily spare-parts demand generator. *)
(*                                                                         *)
(* Reals are exact rationals <<num, den>> with den > 0, in lowest terms.   *)
(* Dates are day ordinals counted from EpochYear-01-01, as pandas keeps a  *)
(* Timestamp as an offset from its epoch.  Strings are sequences of        *)
(* character codes, so that they compare as Python strings compare.        *)
(* numpy's global random stream is a linear congruential generator over    *)
(* 0 .. Modulus-1; every library sampler is a function of the stream       *)
(* state at the time of the call and advances the stream by one step.      *)
(***************************************************************************)
EXTENDS Integers, Sequences, FiniteSets, TLC

VARIABLES n_sku, start_date, end_date, seed,
          pc, run, rng, categories, date_idx, t0, idx, item, di,
          recs, df, outfile, first_df, first_file,
          draws, audit,
          nb_in, nb_out,
          age

vars == <<n_sku, start_date, end_date, seed,
          pc, run, rng, categories, date_idx, t0, idx, item, di,
          recs, df, outfile, first_df, first_file,
          draws, audit, nb_in, nb_out, age>>

genVars == <<n_sku, start_date, end_date, seed,
             pc, run, rng, categories, date_idx, t0, idx, item, di,
             recs, df, outfile, first_df, first_file, draws, audit>>

None == <<>>

(* ------------------------------ bounds -------------------------------- *)
MaxSku == 10
MaxSpan == 2
MaxSeed == 7
MaxBoot == 1
MaxMeanHalves == 20
MaxCvQuarters == 12
MaxYears == 9

(* --------------------------- exact rationals --------------------------- *)
RECURSIVE GCD(_, _)
GCD(a, b) == IF b = 0 THEN a ELSE GCD(b, a % b)

Abs(a) == IF a < 0 THEN -a ELSE a

Rat(n, d) ==
    LET g == GCD(Abs(n), Abs(d))
        s == IF d < 0 THEN -1 ELSE 1
    IN  <<(s * n) \div g, (s * d) \div g>>

RatInt(k) == <<k, 1>>

RatAdd(x, y) ==
    LET g == GCD(x[2], y[2])
    IN  Rat(x[1] * (y[2] \div g) + y[1] * (x[2] \div g), (x[2] \div g) * y[2])

RatNeg(x) == <<-x[1], x[2]>>

RatSub(x, y) == RatAdd(x, RatNeg(y))

RatMul(x, y) ==
    LET g1 == GCD(Abs(x[1]), y[2])
        g2 == GCD(Abs(y[1]), x[2])
    IN  Rat((x[1] \div g1) * (y[1] \div g2), (x[2] \div g2) * (y[2] \div g1))

RatInv(x) == IF x[1] < 0 THEN <<-x[2], -x[1]>> ELSE <<x[2], x[1]>>

RatDiv(x, y) == RatMul(x, RatInv(y))

\* a/b < c/d for b, d > 0, by comparing continued-fraction expansions
RECURSIVE CfLess(_, _, _, _)
CfLess(a, b, c, d) ==
    LET qa == a \div b
        qc == c \div d
        ra == a % b
        rc == c % d
    IN  IF qa # qc THEN qa < qc
        ELSE IF rc = 0 THEN FALSE
        ELSE IF ra = 0 THEN TRUE
        ELSE CfLess(d, rc, b, ra)

RatLess(x, y) == CfLess(x[1], x[2], y[1], y[2])

RatLeq(x, y) == ~RatLess(y, x)

RatMax(x, y) == IF RatLess(x, y) THEN y ELSE x

RatMin(x, y) == IF RatLess(y, x) THEN y ELSE x

RECURSIVE IntPow10(_)
IntPow10(k) == IF k = 0 THEN 1 ELSE 10 * IntPow10(k - 1)

\* 10 ** x for a rational exponent: exact in the integer part of x, and
\* 10 ** (k/8) to four significant digits for the fraction rounded down
\* to an eighth.
Pow10Eighths == <<1000, 1334, 1778, 2371, 3162, 4217, 5623, 7499>>

Pow10(x) ==
    LET e == x[1] \div x[2]
        k == ((x[1] - e * x[2]) * 8) \div x[2]
        m == Pow10Eighths[k + 1]
    IN  IF e >= 0 THEN Rat(m * IntPow10(e), 1000)
        ELSE Rat(m, 1000 * IntPow10(-e))

(* ------------------------------ calendar ------------------------------- *)
EpochYear == 2020
EpochWeekday == 2

IsLeap(y) == (y % 4 = 0 /\ y % 100 # 0) \/ y % 400 = 0

DaysInYear(y) == IF IsLeap(y) THEN 366 ELSE 365

DaysInMonth(y, m) ==
    IF m = 2 THEN (IF IsLeap(y) THEN 29 ELSE 28)
    ELSE IF m \in {4, 6, 9, 11} THEN 30 ELSE 31

RECURSIVE DaysBeforeYear(_)
DaysBeforeYear(y) ==
    IF y <= EpochYear THEN 0 ELSE DaysBeforeYear(y - 1) + DaysInYear(y - 1)

RECURSIVE DaysBeforeMonth(_, _)
DaysBeforeMonth(y, m) ==
    IF m <= 1 THEN 0 ELSE DaysBeforeMonth(y, m - 1) + DaysInMonth(y, m - 1)

\* pd.to_datetime("YYYY-MM-DD"): calendar date -> Timestamp
to_datetime(d) == DaysBeforeYear(d.y) + DaysBeforeMonth(d.y, d.m) + (d.d - 1)

RECURSIVE YearFrom(_, _)
YearFrom(y, rest) ==
    IF rest < DaysInYear(y) THEN y ELSE YearFrom(y + 1, rest - DaysInYear(y))

\* Timestamp.year
YearOf(ord) == YearFrom(EpochYear, ord)

RECURSIVE MonthFrom(_, _, _)
MonthFrom(y, m, rest) ==
    IF rest < DaysInMonth(y, m) THEN m
    ELSE MonthFrom(y, m + 1, rest - DaysInMonth(y, m))

\* Timestamp.month
MonthOf(ord) == MonthFrom(YearOf(ord), 1, ord - DaysBeforeYear(YearOf(ord)))

DayOf(ord) ==
    ord - DaysBeforeYear(YearOf(ord)) - DaysBeforeMonth(YearOf(ord), MonthOf(ord)) + 1

\* Timestamp.weekday(): Monday = 0 ... Sunday = 6
Weekday(ord) == (ord + EpochWeekday) % 7

\* the calendar date a Timestamp prints as (YYYY-MM-DD)
DateOf(ord) == [y |-> YearOf(ord), m |-> MonthOf(ord), d |-> DayOf(ord)]

\* pd.date_range(start, end, freq="D"): every day from start to end inclusive,
\* empty when end is before start
date_range_open(s, e) == [k \in 1..(to_datetime(e) - to_datetime(s)) |-> to_datetime(s) + (k - 1)]

date_range(s, e) == [k \in 1..(to_datetime(e) - to_datetime(s) + 1) |-> to_datetime(s) + (k - 1)]

(* --------------------------- the random stream ------------------------- *)
Modulus == 64
Res == 4

\* np.random.seed(seed): the stream state is a function of the seed alone
SeedState(s) == (s * 5 + 1) % Modulus

\* one step of the generator
Advance(s) == (s * 13 + 7) % Modulus

\* np.random.rand() / random_sample: a real in [0, 1) from the high bits
random_sample(s) == Rat(s \div (Modulus \div Res), Res)

\* np.random.uniform(lo, hi) = lo + (hi - lo) * random_sample()
uniform(lo, hi, s) == RatAdd(lo, RatMul(RatSub(hi, lo), random_sample(s)))

\* np.random.randint(lo, hi): an integer in lo .. hi-1
randint(lo, hi, s) == lo + (s * (hi - lo)) \div Modulus

\* scipy's poisson.rvs / nbinom.rvs: a non-negative integer, 0 included
rvs(s) == s % 4

(* ------------------------------ nb_params ------------------------------ *)
ClipLo == <<1, 1000000>>
ClipHi == <<999999, 1000000>>

\* np.clip(x, lo, hi)
clip(x, lo, hi) == RatMin(RatMax(x, lo), hi)

nb_params_unsquared(mean, cv) ==
    LET var == RatMul(cv, mean)
    IN  IF RatLeq(var, mean) THEN <<None, None>>
        ELSE LET r == RatDiv(RatMul(mean, mean), RatSub(var, mean))
                 p == RatDiv(r, RatAdd(r, mean))
             IN  <<r, clip(p, ClipLo, ClipHi)>>

nb_params(mean, cv) ==
    LET var == RatMul(RatMul(cv, mean), RatMul(cv, mean))
    IN  IF RatLeq(var, mean) THEN <<None, None>>
        ELSE LET r == RatDiv(RatMul(mean, mean), RatSub(var, mean))
                 p == RatDiv(r, RatAdd(r, mean))
             IN  <<r, clip(p, ClipLo, ClipHi)>>

(* --------------------------- generate_data parts ----------------------- *)
CategoryNames == <<"smooth", "erratic", "slow", "lumpy">>

\* cumulative sums of p = [0.20, 0.20, 0.30, 0.30]
CategoryCdf == <<Rat(1, 5), Rat(2, 5), Rat(7, 10), Rat(1, 1)>>

\* np.random.choice for one element: the first category whose cumulative
\* probability exceeds the uniform sample
choice1(s) ==
    LET u == random_sample(s)
    IN  CategoryNames[1 + Cardinality({k \in 1..4 : RatLeq(CategoryCdf[k], u)})]

\* np.random.choice(..., size=n): n samples taken from the stream in order
RECURSIVE choice(_, _)
choice(n, s) ==
    IF n = 0 THEN [cats |-> <<>>, rng |-> s]
    ELSE LET prev == choice(n - 1, s)
             s1 == Advance(prev.rng)
         IN  [cats |-> Append(prev.cats, choice1(s1)), rng |-> s1]

RECURSIVE Digits(_)
Digits(n) == IF n < 10 THEN <<48 + n>> ELSE Append(Digits(n \div 10), 48 + (n % 10))

RECURSIVE ZeroPad(_, _)
ZeroPad(ds, width) == IF Len(ds) >= width THEN ds ELSE ZeroPad(<<48>> \o ds, width)

SkuPrefix == <<83, 75, 85, 45>>

sku_unpadded(i) == SkuPrefix \o Digits(i + 1)

\* f"SKU-{idx+1:04d}"
sku_name(i) == SkuPrefix \o ZeroPad(Digits(i + 1), 4)

\* Python's str < str: lexicographic on code points, a proper prefix is smaller
RECURSIVE StrLess(_, _)
StrLess(a, b) ==
    IF Len(b) = 0 THEN FALSE
    ELSE IF Len(a) = 0 THEN TRUE
    ELSE IF Head(a) # Head(b) THEN Head(a) < Head(b)
    ELSE StrLess(Tail(a), Tail(b))

lam_adj_unfloored(lam_daily, decay, peak_year, yrs) ==
    LET since == IF yrs - peak_year > 0 THEN yrs - peak_year ELSE 0
    IN  RatMul(lam_daily, RatSub(RatInt(1), RatMul(decay, RatInt(since))))

\* lam_daily * max(1 - decay * max(yrs - peak_year, 0), 0.1)
lam_adj_of(lam_daily, decay, peak_year, yrs) ==
    LET since == IF yrs - peak_year > 0 THEN yrs - peak_year ELSE 0
    IN  RatMul(lam_daily,
               RatMax(RatSub(RatInt(1), RatMul(decay, RatInt(since))), Rat(1, 10)))

dow_factor_swapped(wd) == IF wd <= 4 THEN RatInt(1) ELSE IF wd = 5 THEN Rat(4, 10) ELSE Rat(6, 10)

dow_factor(wd) == IF wd <= 4 THEN RatInt(1) ELSE IF wd = 5 THEN Rat(6, 10) ELSE Rat(4, 10)

q_factor(month) == IF month \in {7, 12} THEN Rat(125, 100) ELSE RatInt(1)

floor1_missing(x) == x

\* max(1, x)
floor1(x) == IF x < 1 THEN 1 ELSE x

\* rows ordered by (Material, Demand Date)
RowLess_date_first(a, b) ==
    a.date < b.date \/ (a.date = b.date /\ StrLess(a.sku, b.sku))

RowLess(a, b) ==
    StrLess(a.sku, b.sku) \/ (a.sku = b.sku /\ a.date < b.date)

RECURSIVE InsertRow(_, _)
InsertRow(rows, x) ==
    IF Len(rows) = 0 THEN <<x>>
    ELSE IF RowLess(x, rows[Len(rows)])
         THEN Append(InsertRow(SubSeq(rows, 1, Len(rows) - 1), x), rows[Len(rows)])
         ELSE Append(rows, x)

\* DataFrame.sort_values(["Material", "Demand Date"])
RECURSIVE sort_values(_)
sort_values(rows) ==
    IF Len(rows) = 0 THEN <<>>
    ELSE InsertRow(sort_values(SubSeq(rows, 1, Len(rows) - 1)), rows[Len(rows)])

\* DataFrame.to_csv: the header, then one line per row with the date printed
\* as YYYY-MM-DD
to_csv(rows) ==
    [header |-> <<"Demand Date", "Material", "Demand Size">>,
     lines |-> [k \in 1..Len(rows) |-> <<DateOf(rows[k].date), rows[k].sku, rows[k].qty>>]]

(* ------------------------------ the inputs ----------------------------- *)
\* --start: a Sunday, a Friday in July, a Saturday before a new year, and
\* the day before a leap day
StartDates == {[y |-> 2023, m |-> 1, d |-> 1], [y |-> 2023, m |-> 7, d |-> 7],
               [y |-> 2023, m |-> 12, d |-> 30], [y |-> 2024, m |-> 2, d |-> 28]}

SkuCounts == -1..MaxSku

Seeds == 0..MaxSeed

\* whatever state the process-wide stream holds before it is seeded
BootStates == 0..MaxBoot

NoItem == [cat |-> "", sku |-> <<>>, lam_daily |-> None, peak_year |-> 0,
           decay |-> None, mean_size |-> None, cv_size |-> None,
           r_nb |-> None, p_nb |-> None, uses_poisson_size |-> FALSE]

NoFile == [header |-> <<>>, lines |-> <<>>]

NoAge == [lam_daily |-> None, decay |-> None, peak_year |-> 0, t0 |-> 0,
          cal_date |-> 0, lam_adj |-> None, prev |-> None]

GenIdle ==
    /\ n_sku = 0 /\ start_date = [y |-> EpochYear, m |-> 1, d |-> 1]
    /\ end_date = [y |-> EpochYear, m |-> 1, d |-> 1] /\ seed = 0
    /\ pc = "idle" /\ run = 0 /\ rng = 0
    /\ categories = <<>> /\ date_idx = <<>> /\ t0 = 0 /\ idx = 0
    /\ item = NoItem /\ di = 0 /\ recs = <<>> /\ df = <<>>
    /\ outfile = NoFile /\ first_df = <<>> /\ first_file = NoFile
    /\ draws = <<>> /\ audit = <<>>

\* the state at entry to __main__, after parse_args
Init ==
    /\ n_sku \in SkuCounts
    /\ start_date \in StartDates
    /\ \E delta \in -1..MaxSpan : end_date = DateOf(to_datetime(start_date) + delta)
    /\ seed \in Seeds
    /\ rng \in BootStates
    /\ pc = "start" /\ run = 1
    /\ categories = <<>> /\ date_idx = <<>> /\ t0 = 0 /\ idx = 0
    /\ item = NoItem /\ di = 0 /\ recs = <<>> /\ df = <<>>
    /\ outfile = NoFile /\ first_df = <<>> /\ first_file = NoFile
    /\ draws = <<>> /\ audit = <<>>
    /\ nb_in = None /\ nb_out = None /\ age = NoAge

(* ------------------------------ generate_data -------------------------- *)
Draw(kind, i, date) == [kind |-> kind, item |-> i, date |-> date]

Seed_kept ==
    /\ pc = "start"
    /\ pc' = "choice"
    /\ UNCHANGED <<n_sku, start_date, end_date, seed, run, rng, categories,
                   date_idx, t0, idx, item, di, recs, df, outfile, first_df,
                   first_file, draws, audit, nb_in, nb_out, age>>

\* np.random.seed(seed)
Seed ==
    /\ pc = "start"
    /\ rng' = SeedState(seed)
    /\ pc' = "choice"
    /\ UNCHANGED <<n_sku, start_date, end_date, seed, run, categories,
                   date_idx, t0, idx, item, di, recs, df, outfile, first_df,
                   first_file, draws, audit, nb_in, nb_out, age>>

\* categories = np.random.choice(..., size=n_sku, p=...); a negative size
\* raises ValueError and the run ends there
Choose ==
    /\ pc = "choice"
    /\ IF n_sku < 0
       THEN /\ pc' = "failed"
            /\ UNCHANGED <<rng, categories, draws>>
       ELSE /\ categories' = choice(n_sku, rng).cats
            /\ rng' = choice(n_sku, rng).rng
            /\ draws' = draws \o [k \in 1..n_sku |-> Draw("category", k, 0)]
            /\ pc' = "dates"
    /\ UNCHANGED <<n_sku, start_date, end_date, seed, run, date_idx, t0, idx,
                   item, di, recs, df, outfile, first_df, first_file, audit,
                   nb_in, nb_out, age>>

\* date_idx = pd.date_range(...); t0 = pd.to_datetime(start_date); recs = []
Dates ==
    /\ pc = "dates"
    /\ date_idx' = date_range(start_date, end_date)
    /\ t0' = to_datetime(start_date)
    /\ recs' = <<>>
    /\ idx' = 0
    /\ pc' = "item"
    /\ UNCHANGED <<n_sku, start_date, end_date, seed, run, rng, categories,
                   item, di, df, outfile, first_df, first_file, draws, audit,
                   nb_in, nb_out, age>>

IsDense(cat) == cat \in {"smooth", "erratic"}

IsRegular(cat) == cat \in {"smooth", "slow"}

RECURSIVE AdvanceBy(_, _)
AdvanceBy(s, k) == IF k = 0 THEN s ELSE Advance(AdvanceBy(s, k - 1))

ParamOrder_peak_first == <<"peak_year", "lam_daily", "decay", "mean_size", "cv_size">>

\* the order in which the body of the loop draws the parameters of an item
ParamOrder == <<"lam_daily", "peak_year", "decay", "mean_size", "cv_size">>

\* the stream state the draw of parameter f works from
StateFor(f, s) == AdvanceBy(s, CHOOSE k \in 1..Len(ParamOrder) : ParamOrder[k] = f)

\* the five parameter draws of item idx = i, and nb_params on its size
\* statistics
ItemParams(i, cat, s) ==
    LET mean_size == uniform(RatInt(1), RatInt(10), StateFor("mean_size", s))
        cv_size == IF IsRegular(cat)
                   THEN uniform(Rat(3, 10), Rat(6, 10), StateFor("cv_size", s))
                   ELSE uniform(Rat(8, 10), Rat(25, 10), StateFor("cv_size", s))
        nb == nb_params(mean_size, cv_size)
    IN  [item |-> [cat |-> cat, sku |-> sku_name(i),
                   lam_daily |-> IF IsDense(cat)
                                 THEN uniform(Rat(7, 10), RatInt(1), StateFor("lam_daily", s))
                                 ELSE Pow10(uniform(Rat(-35, 10), RatInt(-1),
                                                    StateFor("lam_daily", s))),
                   peak_year |-> randint(1, 4, StateFor("peak_year", s)),
                   decay |-> uniform(Rat(5, 100), Rat(15, 100), StateFor("decay", s)),
                   mean_size |-> mean_size, cv_size |-> cv_size,
                   r_nb |-> nb[1], p_nb |-> nb[2],
                   uses_poisson_size |-> (nb[1] = None)],
         rng |-> AdvanceBy(s, Len(ParamOrder)),
         draws |-> [k \in 1..Len(ParamOrder) |-> Draw(ParamOrder[k], i + 1, 0)]]

\* the head of one iteration of `for idx in range(n_sku)`
SampleItem ==
    /\ pc = "item"
    /\ idx < n_sku
    /\ LET sampled == ItemParams(idx, categories[idx + 1], rng)
       IN  /\ item' = sampled.item
           /\ rng' = sampled.rng
           /\ draws' = draws \o sampled.draws
    /\ IF Len(date_idx) = 0
       THEN /\ idx' = idx + 1 /\ pc' = "item" /\ di' = 0
       ELSE /\ idx' = idx /\ pc' = "day" /\ di' = 1
    /\ UNCHANGED <<n_sku, start_date, end_date, seed, run, categories,
                   date_idx, t0, recs, df, outfile, first_df, first_file,
                   audit, nb_in, nb_out, age>>

\* one iteration of `for cal_date in date_idx`
Day ==
    /\ pc = "day"
    /\ LET cal_date == date_idx[di]
           yrs == YearOf(cal_date) - YearOf(t0)
           lam_adj == lam_adj_of(item.lam_daily, item.decay, item.peak_year, yrs)
           lam_today == RatMul(RatMul(lam_adj, dow_factor(Weekday(cal_date))),
                               q_factor(MonthOf(cal_date)))
           s1 == Advance(rng)
           u == random_sample(s1)
           occurs == RatLess(u, lam_today)
           s2 == Advance(s1)
           qty == IF occurs THEN floor1(rvs(s2)) ELSE 0
       IN  /\ rng' = IF occurs THEN s2 ELSE s1
           /\ recs' = Append(recs, [date |-> cal_date, sku |-> item.sku, qty |-> qty])
           /\ draws' = draws \o
                 (IF occurs
                  THEN <<Draw("occurrence", idx + 1, cal_date),
                         Draw(IF item.uses_poisson_size THEN "poisson" ELSE "nbinom",
                              idx + 1, cal_date)>>
                  ELSE <<Draw("occurrence", idx + 1, cal_date)>>)
           /\ audit' = Append(audit,
                 [item |-> idx + 1, date |-> cal_date, lam_daily |-> item.lam_daily,
                  lam_adj |-> lam_adj, lam_today |-> lam_today, u |-> u,
                  occurs |-> occurs, raw |-> IF occurs THEN rvs(s2) ELSE -1])
    /\ IF di < Len(date_idx)
       THEN /\ di' = di + 1 /\ idx' = idx /\ pc' = "day"
       ELSE /\ di' = 0 /\ idx' = idx + 1 /\ pc' = "item"
    /\ UNCHANGED <<n_sku, start_date, end_date, seed, run, categories,
                   date_idx, t0, item, df, outfile, first_df, first_file,
                   nb_in, nb_out, age>>

\* df = pd.DataFrame(recs, ...); df.sort_values(...); return df
Assemble ==
    /\ pc = "item"
    /\ idx >= n_sku
    /\ df' = sort_values(recs)
    /\ pc' = "returned"
    /\ UNCHANGED <<n_sku, start_date, end_date, seed, run, rng, categories,
                   date_idx, t0, idx, item, di, recs, outfile, first_df,
                   first_file, draws, audit, nb_in, nb_out, age>>

\* df_syn.to_csv(args.outfile, index=False)
WriteCsv ==
    /\ pc = "returned"
    /\ outfile' = to_csv(df)
    /\ pc' = "done"
    /\ UNCHANGED <<n_sku, start_date, end_date, seed, run, rng, categories,
                   date_idx, t0, idx, item, di, recs, df, first_df,
                   first_file, draws, audit, nb_in, nb_out, age>>

\* the program is run a second time with the same arguments; the table and
\* the file of the first run are set aside, the stream is left as it was
Rerun ==
    /\ pc \in {"done", "failed"}
    /\ run = 1
    /\ run' = 2
    /\ first_df' = df
    /\ first_file' = outfile
    /\ pc' = "start"
    /\ categories' = <<>> /\ date_idx' = <<>> /\ t0' = 0 /\ idx' = 0
    /\ item' = NoItem /\ di' = 0 /\ recs' = <<>> /\ df' = <<>>
    /\ outfile' = NoFile /\ draws' = <<>> /\ audit' = <<>>
    /\ UNCHANGED <<n_sku, start_date, end_date, seed, rng, nb_in, nb_out, age>>

Next ==
    \/ Seed
    \/ Choose
    \/ Dates
    \/ SampleItem
    \/ Day
    \/ Assemble
    \/ WriteCsv
    \/ Rerun

Spec == Init /\ [][Next]_vars

(* ------------------- nb_params on its own (SpecNb) --------------------- *)
\* means k/2 and coefficients of variation j/4, and two pairs that drive p
\* to either end of the clip: cv^2 * mean just above 1, and a very large cv
NbInputs ==
    {<<Rat(k, 2), Rat(j, 4)>> : k \in 1..MaxMeanHalves, j \in 0..MaxCvQuarters}
        \cup {<<RatInt(2), Rat(3363, 4756)>>, <<RatInt(2), RatInt(1000)>>}

InitNb ==
    /\ GenIdle
    /\ nb_in \in NbInputs
    /\ nb_out = None
    /\ age = NoAge

\* r_nb, p_nb = nb_params(mean_size, cv_size)
NbApply ==
    /\ nb_in # None
    /\ nb_out = None
    /\ nb_out' = nb_params(nb_in[1], nb_in[2])
    /\ UNCHANGED <<genVars, nb_in, age>>

NextNb == NbApply

SpecNb == InitNb /\ [][NextNb]_vars

(* ------------------ the ageing decay on its own (SpecAge) -------------- *)
AgeRates == {RatInt(1), Rat(7, 10), Pow10(Rat(-35, 10))}

AgeDecays == {Rat(5, 100), Rat(10, 100), Rat(15, 100)}

InitAge ==
    /\ GenIdle
    /\ nb_in = None /\ nb_out = None
    /\ \E s \in StartDates, l \in AgeRates, d \in AgeDecays, p \in 1..3 :
          age = [lam_daily |-> l, decay |-> d, peak_year |-> p,
                 t0 |-> to_datetime(s), cal_date |-> to_datetime(s),
                 lam_adj |-> None, prev |-> None]

\* yrs = cal_date.year - t0.year; lam_adj = lam_daily * max(...)
AgeDay ==
    /\ age.lam_daily # None
    /\ age.lam_adj = None
    /\ age' = [age EXCEPT !.lam_adj =
                  lam_adj_of(age.lam_daily, age.decay, age.peak_year,
                             YearOf(age.cal_date) - YearOf(age.t0))]
    /\ UNCHANGED <<genVars, nb_in, nb_out>>

\* the loop over date_idx reaches the same day one year on
AgeNextYear ==
    /\ age.lam_adj # None
    /\ YearOf(age.cal_date) - YearOf(age.t0) < MaxYears
    /\ age' = [age EXCEPT !.cal_date = age.cal_date + DaysInYear(YearOf(age.cal_date)),
                          !.prev = age.lam_adj,
                          !.lam_adj = None]
    /\ UNCHANGED <<genVars, nb_in, nb_out>>

NextAge ==
    \/ AgeDay
    \/ AgeNextYear

SpecAge == InitAge /\ [][NextAge]_vars

(* ============================ the claims ============================== *)
Returned == pc \in {"returned", "done"}

numDays == to_datetime(end_date) - to_datetime(start_date) + 1

ValidConfig == n_sku >= 1 /\ numDays >= 1

\* C1: for n_sku >= 1 and start <= end the returned table has exactly
\* n_sku * numDays records, one for each (item, day) pair of the window;
\* days without an occurrence are present with quantity 0.
C1_RowCount ==
    (Returned /\ ValidConfig) =>
        /\ Len(df) = n_sku * numDays
        /\ \A i \in 1..n_sku : \A d \in 0..(numDays - 1) :
              Cardinality({k \in DOMAIN df :
                              /\ df[k].sku = sku_name(i - 1)
                              /\ df[k].date = to_datetime(start_date) + d}) = 1
        /\ Cardinality({k \in DOMAIN audit : ~audit[k].occurs})
              = Cardinality({k \in DOMAIN df : df[k].qty = 0})

C1_Witness ==
    /\ pc = "done" /\ n_sku >= 2 /\ numDays = 3
    /\ Len(df) = 3 * n_sku
    /\ \E k \in DOMAIN df : df[k].qty = 0
    /\ \E k \in DOMAIN df : df[k].qty > 0

\* C2: every quantity is a non-negative integer; it is >= 1 exactly when an
\* occurrence was sampled that day and 0 exactly when none was; a size
\* draw of 0 is recorded as 1.
C2_Quantity ==
    /\ Len(audit) = Len(recs)
    /\ Returned => \A k \in DOMAIN recs :
          /\ recs[k].qty \in Nat
          /\ (recs[k].qty >= 1) <=> audit[k].occurs
          /\ (recs[k].qty = 0) <=> ~audit[k].occurs
          /\ (audit[k].occurs /\ audit[k].raw = 0) => recs[k].qty = 1
          /\ (audit[k].occurs /\ audit[k].raw >= 1) => recs[k].qty = audit[k].raw

C2_Witness ==
    /\ Returned
    /\ \E k \in DOMAIN recs : audit[k].occurs /\ audit[k].raw = 0 /\ recs[k].qty = 1
    /\ \E k \in DOMAIN recs : audit[k].occurs /\ audit[k].raw > 1
    /\ \E k \in DOMAIN recs : ~audit[k].occurs

\* C3: a second run with the same (sku count, start, end, seed) returns the
\* same table as the first, row for row, and writes the same file.
C3_Deterministic ==
    /\ (run = 2 /\ Returned) => df = first_df
    /\ (run = 2 /\ pc = "done") => outfile = first_file
    /\ (run = 2 /\ pc = "failed") => first_file = NoFile

C3_Witness ==
    /\ run = 2 /\ pc = "done" /\ df = first_df /\ Len(df) >= 4
    /\ \E k \in DOMAIN df : df[k].qty > 1
    /\ \E k \in DOMAIN df : df[k].qty = 0

\* C4: the returned table is sorted by item identifier ascending and, within
\* an item, by date ascending, with no two records for one (item, date).
C4_Sorted ==
    Returned =>
        \A i \in 1..(Len(df) - 1) :
            \/ StrLess(df[i].sku, df[i + 1].sku)
            \/ (df[i].sku = df[i + 1].sku /\ df[i].date < df[i + 1].date)

C4_Witness ==
    /\ pc = "done" /\ n_sku >= 2 /\ numDays >= 2
    /\ Len(df) = n_sku * numDays

\* C5: an invalid configuration (non-positive sku count, or end before
\* start) stops the run before any generation work and before any output.
C5_InvalidFailsFast ==
    (n_sku <= 0 \/ numDays <= 0) =>
        /\ pc \in {"start", "choice", "failed"}
        /\ draws = <<>>
        /\ outfile = NoFile

\* C8: an occurrence happens exactly when the uniform draw u in [0,1) is
\* below agedRate * dowFactor * seasonalFactor (1.0 Monday-Friday, 0.6
\* Saturday, 0.4 Sunday; 1.25 in July and December, else 1.0); the rate is
\* not clamped, and at 1 or above the occurrence always happens with a
\* quantity of at least 1.
C8_Rate(e) ==
    LET wd == (e.date + EpochWeekday) % 7
        dow == CASE wd = 5 -> <<3, 5>> [] wd = 6 -> <<2, 5>> [] OTHER -> <<1, 1>>
        mo == DateOf(e.date).m
        seasonal == IF mo = 7 \/ mo = 12 THEN <<5, 4>> ELSE <<1, 1>>
    IN  RatMul(e.lam_adj, RatMul(dow, seasonal))

C8_Occurrence ==
    Returned => \A k \in DOMAIN audit :
        LET e == audit[k] IN
        /\ e.lam_today = C8_Rate(e)
        /\ RatLeq(<<0, 1>>, e.u) /\ RatLess(e.u, <<1, 1>>)
        /\ e.occurs <=> RatLess(e.u, C8_Rate(e))
        /\ RatLeq(<<1, 1>>, C8_Rate(e)) => (e.occurs /\ recs[k].qty >= 1)

C8_Witness ==
    /\ Returned
    /\ \E k \in DOMAIN audit : RatLess(<<1, 1>>, audit[k].lam_today) /\ audit[k].occurs
    /\ \E k \in DOMAIN audit : Weekday(audit[k].date) = 5
    /\ \E k \in DOMAIN audit : Weekday(audit[k].date) = 6
    /\ \E k \in DOMAIN audit : ~audit[k].occurs

\* C9 as stated: every draw of item i is taken before any draw of item i+1.
C9_ItemMajor ==
    \A i \in DOMAIN draws : \A j \in DOMAIN draws :
        i < j => draws[i].item <= draws[j].item

C9_FieldRank(kind) ==
    CASE kind = "category" -> 0
      [] kind = "lam_daily" -> 1
      [] kind = "peak_year" -> 2
      [] kind = "decay" -> 3
      [] kind = "mean_size" -> 4
      [] kind = "cv_size" -> 5
      [] kind = "occurrence" -> 6
      [] OTHER -> 7

\* a is earlier than b in the amended order (a strict total order on draws)
C9_Before(a, b) ==
    IF a.kind = "category" \/ b.kind = "category"
    THEN \/ (a.kind = "category" /\ b.kind # "category")
         \/ (a.kind = "category" /\ b.kind = "category" /\ a.item < b.item)
    ELSE \/ a.item < b.item
         \/ /\ a.item = b.item
            /\ \/ (C9_FieldRank(a.kind) < 6 /\ C9_FieldRank(a.kind) < C9_FieldRank(b.kind))
               \/ (C9_FieldRank(a.kind) >= 6 /\ C9_FieldRank(b.kind) >= 6 /\ a.date < b.date)
               \/ (a.kind = "occurrence" /\ C9_FieldRank(b.kind) = 7 /\ a.date = b.date)

\* C9 (amended): the categories of all items are drawn first, in item order;
\* after them the stream is consumed item by item: dailyRate, peakYear,
\* decayRate, meanSize, cvSize, then for each day in ascending date order the
\* occurrence draw followed by the size draw, if any.
C9_DrawOrder ==
    /\ Returned => \A i \in 1..(Len(draws) - 1) : C9_Before(draws[i], draws[i + 1])
    /\ pc \notin {"start", "choice", "failed"} =>
          /\ Len(draws) >= n_sku
          /\ \A k \in 1..n_sku : draws[k] = Draw("category", k, 0)

C9_Witness ==
    /\ pc = "done" /\ n_sku >= 2 /\ numDays >= 2
    /\ \E k \in DOMAIN draws : draws[k].kind = "poisson"
    /\ \E k \in DOMAIN draws : draws[k].kind = "nbinom"

\* C10: for 1 <= n_sku <= 9999 the final sort changes nothing: the returned
\* table is the generation order, items SKU-0001, SKU-0002, ... each with
\* its days in ascending date order.
C10_SortIsIdentity ==
    (Returned /\ n_sku >= 1 /\ n_sku <= 9999) =>
        /\ df = recs
        /\ numDays >= 1 =>
              \A k \in DOMAIN df :
                  /\ df[k].date = to_datetime(start_date) + ((k - 1) % numDays)
                  /\ df[k].sku = SkuPrefix \o ZeroPad(Digits(((k - 1) \div numDays) + 1), 4)
                  /\ Len(df[k].sku) = 8

C10_Witness ==
    /\ pc = "done" /\ n_sku >= 10 /\ numDays >= 2
    /\ Len(df) = n_sku * numDays

\* C6: for mean > 0 and cv >= 0, nb_params returns (None, None) exactly when
\* (cv*mean)^2 <= mean, equivalently cv^2 * mean <= 1; otherwise (r, p) with
\* r = mean^2 / ((cv*mean)^2 - mean) > 0 and p = r / (r + mean) clipped into
\* [1e-6, 1 - 1e-6].
C6_Var == RatMul(RatMul(nb_in[2], nb_in[1]), RatMul(nb_in[2], nb_in[1]))

C6_Unclipped == RatDiv(nb_out[1], RatAdd(nb_out[1], nb_in[1]))

C6_NbParams ==
    nb_out # None =>
        /\ (nb_out = <<None, None>>) <=> RatLeq(C6_Var, nb_in[1])
        /\ (nb_out = <<None, None>>)
              <=> RatLeq(RatMul(RatMul(nb_in[2], nb_in[2]), nb_in[1]), <<1, 1>>)
        /\ nb_out # <<None, None>> =>
              /\ RatLess(<<0, 1>>, nb_out[1])
              /\ RatMul(nb_out[1], RatSub(C6_Var, nb_in[1])) = RatMul(nb_in[1], nb_in[1])
              /\ RatLeq(<<1, 1000000>>, nb_out[2]) /\ RatLeq(nb_out[2], <<999999, 1000000>>)
              /\ RatLess(C6_Unclipped, <<1, 1000000>>) => nb_out[2] = <<1, 1000000>>
              /\ RatLess(<<999999, 1000000>>, C6_Unclipped) => nb_out[2] = <<999999, 1000000>>
              /\ (RatLeq(<<1, 1000000>>, C6_Unclipped) /\ RatLeq(C6_Unclipped, <<999999, 1000000>>))
                    => nb_out[2] = C6_Unclipped

C6_Witness ==
    /\ nb_out # None /\ nb_out # <<None, None>>
    /\ RatLess(<<1, 1>>, nb_in[2])
    /\ nb_out[2] = C6_Unclipped

C6_ClippedLow ==
    nb_out # None /\ nb_out # <<None, None>> /\ RatLess(C6_Unclipped, nb_out[2])

C6_ClippedHigh ==
    nb_out # None /\ nb_out # <<None, None>> /\ RatLess(nb_out[2], C6_Unclipped)

C6_Boundary ==
    nb_out = <<None, None>> /\ C6_Var = nb_in[1]

\* C7: the aged rate is dailyRate * max(1 - decayRate * yearsSincePeak, 0.1)
\* with yearsSincePeak = max(calendarYear - startYear - peakYear, 0): it is
\* dailyRate up to and including the peak year, never increases from one
\* calendar year to the next, never falls below a tenth of dailyRate and so
\* is never zero; peakYear 1, decayRate 0.1, dailyRate 1.0 give 0.6 five
\* calendar years after the start.
C7_Years == DateOf(age.cal_date).y - DateOf(age.t0).y

C7_SincePeak == IF C7_Years - age.peak_year > 0 THEN C7_Years - age.peak_year ELSE 0

C7_Factor ==
    LET f == RatSub(<<1, 1>>, RatMul(age.decay, <<C7_SincePeak, 1>>))
    IN  IF RatLess(f, <<1, 10>>) THEN <<1, 10>> ELSE f

C7_AgedRate ==
    age.lam_adj # None =>
        /\ age.lam_adj = RatMul(age.lam_daily, C7_Factor)
        /\ C7_Years <= age.peak_year => age.lam_adj = age.lam_daily
        /\ age.prev # None => RatLeq(age.lam_adj, age.prev)
        /\ RatLeq(RatMul(age.lam_daily, <<1, 10>>), age.lam_adj)
        /\ RatLess(<<0, 1>>, age.lam_adj)
        /\ (age.peak_year = 1 /\ age.decay = <<1, 10>> /\ age.lam_daily = <<1, 1>>
              /\ C7_Years = 5) => age.lam_adj = <<3, 5>>

C7_Witness ==
    /\ age.lam_adj # None /\ age.prev # None
    /\ age.lam_adj = RatMul(age.lam_daily, <<1, 10>>)
    /\ RatLess(age.lam_adj, age.prev)

C7_Example ==
    /\ age.peak_year = 1 /\ age.decay = <<1, 10>> /\ age.lam_daily = <<1, 1>>
    /\ C7_Years = 5 /\ age.lam_adj = <<3, 5>>

====
